---- MODULE Spec2Model ----
(***************************************************************************)
(* pyboreholes.domains.interval_domain.IntervalDomain as a state machine.  *)
(*                                                                         *)
(* A caller constructs one IntervalDomain, attaches properties to it and   *)
(* calls get_interval, split_at_gaps and to_sampling_domain on it.  The    *)
(* state holds the domain object, the arguments of the last call and what  *)
(* that call gave back (a value or an exception).                          *)
(*                                                                         *)
(* Objects have an identity, oid: the place that allocated them (and, for  *)
(* a Property, the domain whose add_property created it).  Two records     *)
(* with one oid are one object.                                            *)
(*                                                                         *)
(* numpy arrays are sequences.  TLA+ sequences are indexed from 1, the     *)
(* code's from 0: At(s, i) reads s with a Python index i, and the index    *)
(* values the code computes (numpy.where, numpy.flatnonzero, 0, -1) are    *)
(* kept as the code has them.  Depths are integers; the depths of a        *)
(* SamplingDomain, which can be midpoints, are held doubled (depths2).     *)
(***************************************************************************)
EXTENDS Integers, Sequences, FiniteSets, TLC

\* ------------------------------------------------------------------ bounds
\* Longest from_depths / to_depths sequence the importer-ordered inputs have.
MaxLen == 4
\* Deepest depth of the importer-ordered inputs and of get_interval's range.
MaxDepth == 4
\* Longest sequence and deepest depth of the unordered (raw) inputs.
MaxRawLen == 4
MaxRawDepth == 2

Depths == 0..MaxDepth
RawDepths == 0..MaxRawDepth
\* The property types, and the value array a property of each type is given:
\* one distinct value per interval and per type, so that a value moved to
\* another interval or another property shows.
PropertyTypes == {"p", "q"}
PropValueArray(property_type, n) ==
    [i \in 1..n |-> IF property_type = "p" THEN i ELSE n + i]
Names == {<<"bh">>}

SeqsUpTo(S, n) == UNION {[1..k -> S] : k \in 0..n}

NonDecreasing(s) == \A i \in 1..(Len(s) - 1) : s[i] <= s[i + 1]

\* Inputs of the constructor: any two sequences over the raw depths, and any
\* two depth-ordered sequences of one length over the full depth range.
RawInputs == SeqsUpTo(RawDepths, MaxRawLen) \X SeqsUpTo(RawDepths, MaxRawLen)
OrderedSeqs == {s \in SeqsUpTo(Depths, MaxLen) : NonDecreasing(s)}
OrderedInputs == {p \in OrderedSeqs \X OrderedSeqs : Len(p[1]) = Len(p[2])}
Inputs == RawInputs \cup OrderedInputs

\* ------------------------------------------------------- python and numpy
\* s[i] of a Python sequence: 0-based, negative indices count from the end.
InRange(s, i) == -Len(s) <= i /\ i < Len(s)
At(s, i) == IF i >= 0 THEN s[i + 1] ELSE s[Len(s) + i + 1]

\* s[indices] for a sequence of (in-range, non-negative) indices.
Take(s, indices) == [k \in 1..Len(indices) |-> At(s, indices[k])]

\* numpy.where(mask)[0] / numpy.flatnonzero: the 0-based positions where the
\* predicate holds, in increasing order.
RECURSIVE WhereFrom(_, _, _)
WhereFrom(mask, i, n) ==
    IF i >= n THEN <<>>
    ELSE (IF mask[i + 1] THEN <<i>> ELSE <<>>) \o WhereFrom(mask, i + 1, n)
Where(mask) == WhereFrom(mask, 0, Len(mask))

\* numpy.gradient of a 1-D array of at least two elements, times two (the
\* interior points are central differences (f[i+1] - f[i-1]) / 2, the two
\* end points first differences); only its sign is used.
Gradient2(f) ==
    [i \in 1..Len(f) |->
        IF i = 1 THEN 2 * (f[2] - f[1])
        ELSE IF i = Len(f) THEN 2 * (f[Len(f)] - f[Len(f) - 1])
        ELSE f[i + 1] - f[i - 1]]

\* numpy.gradient raises on fewer than two elements (an IndexError in the
\* numpy of the code's time, a ValueError in later ones): the exception is
\* recorded by where it comes from.
GradientError == <<"numpy.gradient", "array too small">>

\* ------------------------------------------------------------- exceptions
MsgLength == "from_ and to_depths must be same length"
MsgFromMono == "from_depths must be monotonically increasing"
MsgToMono == "to_depths must be monotonically increasing"
MsgPositive == "intervals must have positive length"
MsgOverlap == "intervals must not overlap"
AssertionError(msg) == <<"AssertionError", msg>>
NoError == <<"", "">>

\* ------------------------------------------------ IntervalDomain.__init__
\* all(numpy.gradient(depths) > 0)
GradientPositive(depths) == \A i \in 1..Len(depths) : Gradient2(depths)[i] > 0

\* all(to_depths - from_depths > 0)
PositiveLength(from_depths, to_depths) ==
    \A i \in 1..Len(from_depths) : to_depths[i] - from_depths[i] > 0

\* NoOverlap comparing each end with the next end instead of the next start.
NoOverlapAgainstEnds(from_depths, to_depths) ==
    \A i \in 1..(Len(from_depths) - 1) : to_depths[i] <= to_depths[i + 1]

\* NoOverlap with its slices one short: the last boundary is not compared.
NoOverlapSkipsLast(from_depths, to_depths) ==
    \A i \in 1..(Len(from_depths) - 2) : to_depths[i] <= from_depths[i + 1]

\* all(to_depths[:-1] <= from_depths[1:])
NoOverlap(from_depths, to_depths) ==
    \A i \in 1..(Len(from_depths) - 1) : to_depths[i] <= from_depths[i + 1]

\* The exceptions the constructor can end in on these arguments, in the order
\* of its statements; the empty set when it constructs the domain.
InitRaises(from_depths, to_depths) ==
    IF Len(from_depths) # Len(to_depths) THEN {AssertionError(MsgLength)}
    ELSE IF Len(from_depths) < 2 THEN {GradientError}
    ELSE IF ~GradientPositive(from_depths) THEN {AssertionError(MsgFromMono)}
    ELSE IF ~GradientPositive(to_depths) THEN {AssertionError(MsgToMono)}
    ELSE IF ~PositiveLength(from_depths, to_depths)
        THEN {AssertionError(MsgPositive)}
    ELSE IF ~NoOverlap(from_depths, to_depths) THEN {AssertionError(MsgOverlap)}
    ELSE {}

\* The object a successful construction leaves: Domain.__init__ gives it its
\* name, its size and an empty property mapping; gaps and subdomains are
\* attributes only split_at_gaps sets (attrs names the ones that exist).
NoProperties == [t \in {} |-> <<>>]
\* A constructor call gives a new object: its identity is the call's place.
Allocate(object, site) == [object EXCEPT !.oid = site]
NewIntervalDomain(name, from_depths, to_depths) ==
    [exists |-> TRUE, oid |-> "unallocated",
     name |-> name, size |-> Len(from_depths),
     from_depths |-> from_depths, to_depths |-> to_depths,
     properties |-> NoProperties,
     attrs |-> {}, gaps |-> <<>>, subdomains |-> <<>>]
None ==
    [exists |-> FALSE, oid |-> "none",
     name |-> <<>>, size |-> 0,
     from_depths |-> <<>>, to_depths |-> <<>>,
     properties |-> NoProperties,
     attrs |-> {}, gaps |-> <<>>, subdomains |-> <<>>]

\* SamplingDomain(name, depths): Domain.__init__ gives it its name, its size
\* and an empty property mapping; the depths are kept as given (doubled here).
NewSamplingDomain(name, depths2) ==
    [exists |-> TRUE, oid |-> "unallocated", name |-> name,
     size |-> Len(depths2), depths2 |-> depths2, properties |-> NoProperties]
NoSampling ==
    [exists |-> FALSE, oid |-> "none", name |-> <<>>,
     size |-> 0, depths2 |-> <<>>, properties |-> NoProperties]

\* ------------------------------------------------------------------ state
VARIABLES
    dom,        \* the IntervalDomain the caller holds, None before it is built
    call,       \* the last call: its operation and arguments
    raised,     \* the exception the last call ended in, NoError if it returned
    newdom,     \* the domain the last call returned, if it was a get_interval
                \* that returned; None otherwise
    ret         \* <<subdomains, gaps>> as the last call returned them, if it
                \* was a split_at_gaps that returned; NoRet otherwise

VARIABLE
    sdom        \* the SamplingDomain the last call returned, if it was a
                \* to_sampling_domain that returned; NoSampling otherwise

vars == <<dom, call, raised, newdom, ret, sdom>>

NoCall ==
    [op |-> "none", name |-> <<>>, from_depths |-> <<>>, to_depths |-> <<>>,
     from_depth |-> 0, to_depth |-> 0, depths |-> ""]
NoRet == <<<<>>, <<>>>>

Init ==
    /\ dom = None
    /\ call = NoCall
    /\ raised = NoError
    /\ newdom = None
    /\ ret = NoRet
    /\ sdom = NoSampling

\* IntervalDomain(name, from_depths, to_depths)
Construct ==
    /\ call.op = "none"
    /\ \E name \in Names, input \in Inputs :
        LET from_depths == input[1]
            to_depths == input[2]
            errors == InitRaises(from_depths, to_depths)
        IN  /\ call' = [NoCall EXCEPT !.op = "init", !.name = name,
                            !.from_depths = from_depths,
                            !.to_depths = to_depths]
            /\ IF errors = {}
               THEN /\ raised' = NoError
                    /\ dom' = Allocate(
                           NewIntervalDomain(name, from_depths, to_depths),
                           "caller")
               ELSE /\ raised' \in errors
                    /\ dom' = None
    /\ UNCHANGED <<newdom, ret, sdom>>

\* Domain.add_property(property_type, values): a new Property is stored under
\* its type's name, replacing one already stored under it.
DomainAddProperty(d, property_type, values) ==
    [d EXCEPT !.properties =
        [t \in (DOMAIN d.properties) \cup {property_type} |->
            IF t = property_type
            THEN [oid |-> <<d.oid, property_type>>,
                  property_type |-> property_type, values |-> values]
            ELSE d.properties[t]]]

\* dom.add_property(property_type, values), while the domain is being set up
AddProperty ==
    /\ dom.exists
    /\ call.op \in {"init", "add_property"}
    /\ \E property_type \in PropertyTypes :
        LET values == PropValueArray(property_type, dom.size)
        IN
        /\ dom' = DomainAddProperty(dom, property_type, values)
        /\ call' = [NoCall EXCEPT !.op = "add_property"]
    /\ raised' = NoError
    /\ newdom' = None
    /\ ret' = NoRet
    /\ sdom' = NoSampling

\* ------------------------------------------- IntervalDomain.get_interval
\* numpy.where(logical_and(from_depths >= from_depth, to_depths <= to_depth))
IntervalIndices(d, from_depth, to_depth) ==
    Where([i \in 1..Len(d.from_depths) |->
              /\ d.from_depths[i] >= from_depth
              /\ d.to_depths[i] <= to_depth])

\* '{0}: subdomain {1} to {2}'.format(self.name, from_depth, to_depth)
SubdomainName(name, from_depth, to_depth) ==
    name \o <<": subdomain ", from_depth, " to ", to_depth>>

\* for prop in self.properties.values(): newdom.add_property(...)
RECURSIVE CopyProperties(_, _, _, _)
CopyProperties(d, types, indices, target) ==
    IF types = {} THEN target
    ELSE LET t == CHOOSE x \in types : TRUE
             prop == d.properties[t]
         IN  CopyProperties(d, types \ {t}, indices,
                 DomainAddProperty(target, prop.property_type,
                                   Take(prop.values, indices)))

\* domain_name = <<>> stands for the default None.
DomainNames == {<<>>, <<"sub">>}

GetInterval ==
    /\ dom.exists
    /\ \E from_depth \in Depths, to_depth \in Depths, domain_name \in DomainNames :
        LET name == IF domain_name = <<>>
                    THEN SubdomainName(dom.name, from_depth, to_depth)
                    ELSE domain_name
            indices == IntervalIndices(dom, from_depth, to_depth)
            from_depths == Take(dom.from_depths, indices)
            to_depths == Take(dom.to_depths, indices)
            errors == InitRaises(from_depths, to_depths)
        IN  /\ call' = [NoCall EXCEPT !.op = "get_interval",
                            !.name = domain_name,
                            !.from_depth = from_depth, !.to_depth = to_depth]
            /\ IF errors = {}
               THEN /\ raised' = NoError
                    /\ newdom' = CopyProperties(dom, DOMAIN dom.properties,
                           indices,
                           Allocate(
                               NewIntervalDomain(name, from_depths, to_depths),
                               "get_interval"))
               ELSE /\ raised' \in errors
                    /\ newdom' = None
    /\ ret' = NoRet
    /\ sdom' = NoSampling
    /\ UNCHANGED dom

\* ------------------------------------------ IntervalDomain.split_at_gaps
\* numpy.flatnonzero(self.from_depths[1:] - self.to_depths[:-1])
GapIndices(d) ==
    Where([i \in 1..(Len(d.from_depths) - 1) |->
              d.from_depths[i + 1] - d.to_depths[i] # 0])

\* Gaps reading the start of interval idx instead of idx + 1.
GapsFromSameInterval(d) ==
    LET gap_indices == GapIndices(d)
    IN  [k \in 1..Len(gap_indices) |->
            <<At(d.to_depths, gap_indices[k]),
              At(d.from_depths, gap_indices[k])>>]

\* self.gaps after the first loop
Gaps(d) ==
    LET gap_indices == GapIndices(d)
    IN  [k \in 1..Len(gap_indices) |->
            <<At(d.to_depths, gap_indices[k]),
              At(d.from_depths, gap_indices[k] + 1)>>]

\* gap_indices = [0] + list(gap_indices) + [-1]
BoundaryIndices(d) == <<0>> \o GapIndices(d) \o <<-1>>

\* The iterations of the second loop that run before one indexes out of range
\* (all of them when none does).
SubdomainSteps(d) ==
    LET gap_indices == BoundaryIndices(d)
        bad == {k \in 1..(Len(gap_indices) - 1) :
                   \/ ~InRange(d.from_depths, gap_indices[k] + 1)
                   \/ ~InRange(d.to_depths, gap_indices[k + 1])}
    IN  IF bad = {} THEN Len(gap_indices) - 1
        ELSE (CHOOSE k \in bad : \A j \in bad : k <= j) - 1

\* self.subdomains as far as the second loop gets
Subdomains(d) ==
    LET gap_indices == BoundaryIndices(d)
    IN  [k \in 1..SubdomainSteps(d) |->
            <<At(d.from_depths, gap_indices[k] + 1),
              At(d.to_depths, gap_indices[k + 1])>>]

\* SelfAfterSplit with the boundary differences taken in place
\* (from_depths[1:] -= to_depths[:-1]): the start depths are overwritten.
SelfAfterSplitInPlace(d) ==
    [d EXCEPT !.attrs = {"gaps", "subdomains"},
              !.gaps = Gaps(d),
              !.subdomains = Subdomains(d),
              !.from_depths =
                  [i \in 1..Len(d.from_depths) |->
                      IF i = 1 THEN d.from_depths[1]
                      ELSE d.from_depths[i] - d.to_depths[i - 1]]]

\* self after the call: nothing but the two derived attributes is assigned.
SelfAfterSplit(d) ==
    [d EXCEPT !.attrs = {"gaps", "subdomains"},
              !.gaps = Gaps(d),
              !.subdomains = Subdomains(d)]

SplitAtGaps ==
    /\ dom.exists
    /\ call' = [NoCall EXCEPT !.op = "split_at_gaps"]
    /\ dom' = SelfAfterSplit(dom)
    /\ IF SubdomainSteps(dom) = Len(BoundaryIndices(dom)) - 1
       THEN /\ raised' = NoError
            /\ ret' = <<Subdomains(dom), Gaps(dom)>>
       ELSE /\ raised' = <<"IndexError", "index out of bounds">>
            /\ ret' = NoRet
    /\ newdom' = None
    /\ sdom' = NoSampling

\* ------------------------------------- IntervalDomain.to_sampling_domain
\* The depth converters, and the depths arguments a caller passes: none (the
\* default applies), a converter, or something else.
DepthConverters == {"midpoint", "from", "to"}
Omitted == "<omitted>"
DepthsArguments == {Omitted} \cup DepthConverters \cup {"centre"}
\* name = <<>> stands for the default None.
SamplingNames == {<<>>, <<"smp">>}

\* UnknownMethod without the .format(depths): the message names no method.
UnknownMethodUnformatted(depths) ==
    <<"ValueError", "Unknown depth conversion method {0}", "">>

\* raise ValueError('Unknown depth conversion method {0}'.format(depths)):
\* the exception, its message's format and what is formatted into it.
UnknownMethod(depths) ==
    <<"ValueError", "Unknown depth conversion method {0}", depths>>

\* SampleDepths2 with the midpoint taken as (to_depths - from_depths) / 2.
SampleDepths2HalfLength(d, depths) ==
    [i \in 1..Len(d.from_depths) |->
        IF depths = "midpoint" THEN d.to_depths[i] - d.from_depths[i]
        ELSE IF depths = "from" THEN 2 * d.from_depths[i]
        ELSE 2 * d.to_depths[i]]

\* The new depths, doubled: (from_depths + to_depths) / 2., from_depths or
\* to_depths.
SampleDepths2(d, depths) ==
    [i \in 1..Len(d.from_depths) |->
        IF depths = "midpoint" THEN d.from_depths[i] + d.to_depths[i]
        ELSE IF depths = "from" THEN 2 * d.from_depths[i]
        ELSE 2 * d.to_depths[i]]

\* CopyOfProperties as a deep copy: every Property is a new object.
DeepCopyOfProperties(properties) ==
    [t \in DOMAIN properties |->
        [properties[t] EXCEPT !.oid = <<"to_sampling_domain", t>>]]

\* sdom.properties = self.properties.copy(): a new mapping of the same names
\* to the same Property objects.
CopyOfProperties(properties) == [t \in DOMAIN properties |-> properties[t]]

\* SelfAfterSampling with the name default assigned the wrong way round
\* (self.name = name): a given name renames the source.
SelfAfterSamplingRenamed(d, name_argument) ==
    IF name_argument = <<>> THEN d ELSE [d EXCEPT !.name = name_argument]

\* self after the call: name and depths are locals, nothing of self is
\* assigned, whether the call returns or raises.
SelfAfterSampling(d, name_argument) == d

ToSamplingDomain ==
    /\ dom.exists
    /\ \E name_argument \in SamplingNames, depths_argument \in DepthsArguments :
        LET name == IF name_argument = <<>> THEN dom.name ELSE name_argument
            depths == IF depths_argument = Omitted THEN "midpoint"
                      ELSE depths_argument
        IN  /\ call' = [NoCall EXCEPT !.op = "to_sampling_domain",
                            !.name = name_argument,
                            !.depths = depths_argument]
            /\ IF depths \in DepthConverters
               THEN /\ raised' = NoError
                    /\ sdom' = [Allocate(
                                    NewSamplingDomain(name,
                                        SampleDepths2(dom, depths)),
                                    "to_sampling_domain")
                                EXCEPT !.properties =
                                    CopyOfProperties(dom.properties)]
               ELSE /\ raised' = UnknownMethod(depths)
                    /\ sdom' = NoSampling
            /\ dom' = SelfAfterSampling(dom, name_argument)
    /\ newdom' = None
    /\ ret' = NoRet

Next ==
    \/ Construct
    \/ AddProperty
    \/ GetInterval
    \/ SplitAtGaps
    \/ ToSamplingDomain

Spec == Init /\ [][Next]_vars

\* ----------------------------------------------------------------- claims
\* What the claims speak of, stated on the depths themselves.
StrictlyIncreasing(s) == \A i \in 1..(Len(s) - 1) : s[i] < s[i + 1]
EveryIntervalPositive(f, t) == \A i \in 1..Len(f) : t[i] > f[i]
NoIntervalOverlaps(f, t) == \A i \in 1..(Len(f) - 1) : t[i] <= f[i + 1]
SomeIntervalNotPositive(f, t) == \E i \in 1..Len(f) : t[i] <= f[i]
SomeIntervalOverlaps(f, t) == \E i \in 1..(Len(f) - 1) : t[i] > f[i + 1]
FourInvariants(f, t) ==
    /\ Len(f) = Len(t)
    /\ StrictlyIncreasing(f)
    /\ StrictlyIncreasing(t)
    /\ EveryIntervalPositive(f, t)
    /\ NoIntervalOverlaps(f, t)

Constructing == call.op = "init"
EqualLengthInput == Constructing /\ Len(call.from_depths) = Len(call.to_depths)
Rejected == raised # NoError /\ ~dom.exists

\* C1: every IntervalDomain that exists, built by the constructor or returned
\* by get_interval, has from_depths and to_depths strictly increasing, every
\* interval of positive length and no interval overlapping the next; and an
\* input that violates one of these is rejected, no domain being created.
C1_DomainsKeepInvariants ==
    /\ \A d \in {dom, newdom} :
          d.exists => FourInvariants(d.from_depths, d.to_depths)
    /\ (Constructing /\ ~FourInvariants(call.from_depths, call.to_depths))
          => Rejected

\* C1's case: get_interval has returned a domain of two intervals or more, cut
\* out of a longer one, with a gap inside it.
C1_Witness ==
    /\ call.op = "get_interval"
    /\ newdom.exists
    /\ dom.size > newdom.size
    /\ \E i \in 1..(newdom.size - 1) :
          newdom.to_depths[i] < newdom.from_depths[i + 1]

\* C2: every equal-length input that is strictly increasing, of positive
\* length and non-overlapping, of any length N, constructs without error, and
\* the domain's from_depths and to_depths are the inputs.
C2_ValidInputConstructs ==
    (Constructing /\ FourInvariants(call.from_depths, call.to_depths))
        => /\ raised = NoError
           /\ dom.exists
           /\ dom.from_depths = call.from_depths
           /\ dom.to_depths = call.to_depths

\* The first condition, in the order length mismatch, non-monotonic
\* from_depths, non-monotonic to_depths, non-positive length, overlap, that an
\* input violates; "" when it violates none.
FirstViolated(f, t) ==
    IF Len(f) # Len(t) THEN MsgLength
    ELSE IF ~StrictlyIncreasing(f) THEN MsgFromMono
    ELSE IF ~StrictlyIncreasing(t) THEN MsgToMono
    ELSE IF SomeIntervalNotPositive(f, t) THEN MsgPositive
    ELSE IF SomeIntervalOverlaps(f, t) THEN MsgOverlap
    ELSE ""

\* C3: construction on an invalid input fails with the error that names the
\* first condition, in the order length mismatch, non-monotonic from_depths,
\* non-monotonic to_depths, non-positive length, overlap, that the input
\* violates.
C3_FirstViolationReported ==
    (Constructing /\ FirstViolated(call.from_depths, call.to_depths) # "")
        => /\ Rejected
           /\ raised[2] = FirstViolated(call.from_depths, call.to_depths)

\* C4: an equal-length input with some to_depths[i] <= from_depths[i] fails,
\* and the failure reported is the positive-length violation.
C4_AlwaysPositiveLengthError ==
    (EqualLengthInput /\ SomeIntervalNotPositive(call.from_depths, call.to_depths))
        => /\ Rejected
           /\ raised[2] = MsgPositive

\* C5 as stated: an equal-length input with some to_depths[i] >
\* from_depths[i+1] fails, and the failure reported is the overlap violation.
C5_AlwaysOverlapError ==
    (EqualLengthInput /\ SomeIntervalOverlaps(call.from_depths, call.to_depths))
        => /\ Rejected
           /\ raised[2] = MsgOverlap

\* C5 amended: an equal-length input with some to_depths[i] > from_depths[i+1]
\* fails; the failure reported is the overlap violation when from_depths and
\* to_depths are both strictly increasing and every interval has positive
\* length, and otherwise the overlap violation or the failure of one of the
\* checks that come before it (monotonic from_depths, monotonic to_depths,
\* positive length).
C5_OverlapOrEarlier ==
    (EqualLengthInput /\ SomeIntervalOverlaps(call.from_depths, call.to_depths))
        => /\ Rejected
           /\ raised \in {AssertionError(MsgFromMono), AssertionError(MsgToMono),
                          AssertionError(MsgPositive), AssertionError(MsgOverlap)}
           /\ (/\ StrictlyIncreasing(call.from_depths)
               /\ StrictlyIncreasing(call.to_depths)
               /\ EveryIntervalPositive(call.from_depths, call.to_depths))
                 => raised = AssertionError(MsgOverlap)

\* C5's case: an input with overlapping intervals was rejected for it.
C5_Witness ==
    /\ EqualLengthInput
    /\ SomeIntervalOverlaps(call.from_depths, call.to_depths)
    /\ raised = AssertionError(MsgOverlap)

\* The intervals of a domain, and those of them that lie within [a, b].
Intervals(d) == [i \in 1..Len(d.from_depths) |-> <<d.from_depths[i], d.to_depths[i]>>]
Within(iv, a, b) == iv[1] >= a /\ iv[2] <= b
Contained(d, a, b) == SelectSeq(Intervals(d), LAMBDA iv : Within(iv, a, b))
GotInterval == call.op = "get_interval"

\* C6: for every pair of depths a, b the intervals of D.get_interval(a, b) are
\* exactly the intervals of D with from_depth >= a and to_depth <= b, in their
\* order and unclipped.
C6_ExactlyContained ==
    GotInterval
        => /\ raised = NoError
           /\ newdom.exists
           /\ Intervals(newdom) = Contained(dom, call.from_depth, call.to_depth)

\* What get_interval does keep of C6: a call that returns returns exactly the
\* contained intervals.
GetIntervalReturnsContained ==
    (GotInterval /\ raised = NoError)
        => /\ newdom.exists
           /\ Intervals(newdom) = Contained(dom, call.from_depth, call.to_depth)

\* C7: when no interval of D, or exactly one, lies within [a, b] (a > b
\* included), get_interval raises no error and returns a valid IntervalDomain
\* of zero intervals, or of the one.
C7_FewContainedIsNoError ==
    (GotInterval /\ Len(Contained(dom, call.from_depth, call.to_depth)) <= 1)
        => /\ raised = NoError
           /\ newdom.exists
           /\ Intervals(newdom) = Contained(dom, call.from_depth, call.to_depth)
           /\ FourInvariants(newdom.from_depths, newdom.to_depths)

\* The positions in D (from 1) of the intervals within [a, b], in order.
ContainedPositions(d, a, b) ==
    SelectSeq([i \in 1..Len(d.from_depths) |-> i],
              LAMBDA i : Within(Intervals(d)[i], a, b))

\* The properties of the result are those of D, each of its type, its k-th
\* value the value D's property has for the interval that became the k-th.
PropertiesCarried(d, r, a, b) ==
    /\ DOMAIN r.properties = DOMAIN d.properties
    /\ \A t \in DOMAIN d.properties :
          /\ r.properties[t].property_type = d.properties[t].property_type
          /\ Len(r.properties[t].values) = Len(r.from_depths)
          /\ \A k \in 1..Len(r.from_depths) :
                r.properties[t].values[k] =
                    d.properties[t].values[ContainedPositions(d, a, b)[k]]

\* C8: for every property attached to D before the call, D.get_interval(a, b)
\* carries a property of the same type whose values are selected by the same
\* indices as the depths; the result has as many properties as D, each with
\* one value per returned interval.
C8_PropertiesFollowIntervals ==
    (GotInterval /\ DOMAIN dom.properties # {})
        => /\ raised = NoError
           /\ newdom.exists
           /\ PropertiesCarried(dom, newdom, call.from_depth, call.to_depth)

\* What get_interval does keep of C8: a call that returns carries the
\* properties, aligned with the intervals.
GetIntervalReturnsProperties ==
    (GotInterval /\ raised = NoError)
        => PropertiesCarried(dom, newdom, call.from_depth, call.to_depth)

\* The spans (to_depths[i], from_depths[i+1]) over the boundaries i, in
\* increasing i, where the two differ.
Boundaries(d) ==
    [i \in 1..(Len(d.from_depths) - 1) |-> <<d.to_depths[i], d.from_depths[i + 1]>>]
ExpectedGaps(d) == SelectSeq(Boundaries(d), LAMBDA g : g[1] # g[2])
Split == call.op = "split_at_gaps"

RunStarts(d) ==
    SelectSeq([i \in 1..Len(d.from_depths) |-> i],
              LAMBDA i : i = 1 \/ d.to_depths[i - 1] # d.from_depths[i])
RunEnds(d) ==
    SelectSeq([i \in 1..Len(d.from_depths) |-> i],
              LAMBDA i : i = Len(d.from_depths) \/ d.to_depths[i] # d.from_depths[i + 1])
ExpectedSubdomains(d) ==
    [k \in 1..Len(RunStarts(d)) |->
        <<d.from_depths[RunStarts(d)[k]], d.to_depths[RunEnds(d)[k]]>>]

\* C10: the subdomains split_at_gaps returns are, in depth order, one span
\* (from_depth of the first interval, to_depth of the last) per maximal run of
\* intervals with no gap between them; [(0,1),(1,2),(3,4)] gives the gap (2,3)
\* and the subdomains (0,2),(3,4), and [(0,1),(1,2),(2,3)] no gap and the
\* subdomain (0,3).
C10_SubdomainsAreMaximalRuns ==
    Split
        => /\ raised = NoError
           /\ ret[1] = ExpectedSubdomains(dom)
           /\ (dom.from_depths = <<0, 1, 3>> /\ dom.to_depths = <<1, 2, 4>>)
                 => ret = << <<<<0, 2>>, <<3, 4>>>>, <<<<2, 3>>>> >>
           /\ (dom.from_depths = <<0, 1, 2>> /\ dom.to_depths = <<1, 2, 3>>)
                 => ret = << <<<<0, 3>>>>, <<>> >>

Sampled == call.op = "to_sampling_domain"

C12_UnknownMethodRejected ==
    (Sampled /\ call.depths \notin ({Omitted} \cup {"midpoint", "from", "to"}))
        => /\ raised # NoError
           /\ raised[3] = call.depths
           /\ ~sdom.exists

\* C12's case: the call with depths = 'centre' has raised.
C12_Witness ==
    /\ Sampled
    /\ call.depths = "centre"
    /\ raised # NoError

\* C13: the SamplingDomain returned has exactly the property names of the
\* source, each name mapped to the very same Property object, so that the
\* value at sample index i is the value of interval i.
C13_PropertiesShared ==
    (Sampled /\ raised = NoError)
        => /\ DOMAIN sdom.properties = DOMAIN dom.properties
           /\ \A t \in DOMAIN dom.properties :
                 /\ sdom.properties[t].oid = dom.properties[t].oid
                 /\ sdom.properties[t] = dom.properties[t]
                 /\ Len(sdom.properties[t].values) = Len(sdom.depths2)
                 /\ \A i \in 1..Len(sdom.depths2) :
                       sdom.properties[t].values[i] = dom.properties[t].values[i]

\* C13's case: a domain with both properties attached has been converted.
C13_Witness ==
    /\ Sampled
    /\ sdom.exists
    /\ DOMAIN dom.properties = PropertyTypes

\* C14: a get_interval, split_at_gaps or to_sampling_domain call leaves D's
\* name, from_depths, to_depths, its properties and their values as they
\* were; what get_interval and to_sampling_domain return is a new object, not
\* D; and split_at_gaps changes nothing of D but its gaps and subdomains
\* attributes.
C14_SourceUnchanged ==
    [][call'.op \in {"get_interval", "split_at_gaps", "to_sampling_domain"}
        => /\ dom'.oid = dom.oid
           /\ dom'.name = dom.name
           /\ dom'.size = dom.size
           /\ dom'.from_depths = dom.from_depths
           /\ dom'.to_depths = dom.to_depths
           /\ dom'.properties = dom.properties
           /\ call'.op # "split_at_gaps" => dom' = dom
           /\ newdom'.exists => newdom'.oid # dom.oid
           /\ sdom'.exists => sdom'.oid # dom.oid]_vars

\* C14's case: a domain with a property has been split and then converted.
C14_Witness ==
    /\ Sampled
    /\ sdom.exists
    /\ "gaps" \in dom.attrs
    /\ DOMAIN dom.properties # {}

C16_SubdomainsAndGapsTile ==
    (Split /\ raised = NoError)
        => /\ Len(ret[1]) = Len(ret[2]) + 1
           /\ \A k \in 1..Len(ret[1]) : ret[1][k][1] < ret[1][k][2]
           /\ ret[1][1][1] = dom.from_depths[1]
           /\ ret[1][Len(ret[1])][2] = dom.to_depths[Len(dom.to_depths)]
           /\ \A k \in 1..Len(ret[2]) :
                 /\ ret[2][k][1] = ret[1][k][2]
                 /\ ret[2][k][2] = ret[1][k + 1][1]
           /\ dom.subdomains = ret[1]
           /\ dom.gaps = ret[2]

====
